---- MODULE Spec2Model ----
(***************************************************************************)
(* A model of 1000.py: a grid of independently timed 20-sided dice, the    *)
(* per-frame loop that re-rolls them, and the low/high tally that stops    *)
(* the simulation at MAX_ROLLS.                                            *)
(*                                                                         *)
(* Floats.  Python floats are IEEE-754 binary64.  The interval             *)
(* interpolation of line 87 is computed here bit for bit: a float is a     *)
(* record [m, e] with m a sequence of PREC bits (most significant first)   *)
(* and value m * 2^e; every operation computes the exact result and        *)
(* rounds it to nearest, ties to even.  All floats of the program lie in   *)
(* [0, 1], far from overflow and from the subnormal range, so exponents    *)
(* are plain integers.                                                     *)
(*                                                                         *)
(* Time.  time.time() is an integer number of ticks of 2^-TickShift        *)
(* seconds.  Such readings and their differences are exactly               *)
(* representable as binary64, so current_time - last_update_time on line   *)
(* 56 is exact and is compared exactly with the float update_interval.     *)
(*                                                                         *)
(* Steps.  The program is single-threaded.  One step of the model is the   *)
(* top of a frame (lines 104-112), one iteration of the die loop (lines    *)
(* 115-125, the update of one die together with its tally and the cap      *)
(* test), the drawing of a frame, or the exit; the states between the      *)
(* statements of one loop iteration are not states of the model.           *)
(*                                                                         *)
(* Faces.  random.randint(1, 20) may yield any face of 1..20; the model    *)
(* draws the faces Sample keeps of that set.                               *)
(***************************************************************************)
EXTENDS Integers, Sequences, FiniteSets, TLC

(***************************************************************************)
(* Bounds of the model.                                                    *)
(***************************************************************************)
\* NUM_DICE (line 15, COLUMNS * ROWS = 100 in the program), scaled down.
NUM_DICE == 3
\* MAX_ROLLS (line 24, 1000 in the program), scaled down.
MAX_ROLLS == 4
\* The largest number of ticks time.time() advances between two frames.
MaxDt == 2
\* One tick is 2^-TickShift seconds.
TickShift == 1
\* The clock is observed up to MaxTime ticks after startup: long enough for
\* MAX_ROLLS frames of MaxDt ticks each.
MaxTime == MAX_ROLLS * MaxDt

(***************************************************************************)
(* binary64 arithmetic.  Significands are bit sequences, most significant  *)
(* bit first; sums and products are computed on limbs of LimbBits bits.    *)
(***************************************************************************)
\* Significand width of a Python float.
PREC == 53
\* Width of a limb of the multi-word arithmetic.
LimbBits == 12
W == 2 ^ LimbBits

Zeros(n) == [k \in 1..n |-> 0]

Max(a, b) == IF a > b THEN a ELSE b

\* b without its leading zeros.
StripLeading(b) ==
    IF \A k \in 1..Len(b) : b[k] = 0 THEN <<>>
    ELSE LET first == CHOOSE k \in 1..Len(b) :
                          b[k] = 1 /\ \A j \in 1..(k - 1) : b[j] = 0
         IN  SubSeq(b, first, Len(b))

RECURSIVE BitsInt(_)
BitsInt(b) ==
    IF b = <<>> THEN 0
    ELSE 2 * BitsInt(SubSeq(b, 1, Len(b) - 1)) + b[Len(b)]

\* The limbs of a bit sequence, most significant first.
ToLimbs(b) ==
    LET L == (Len(b) + LimbBits - 1) \div LimbBits
        padded == Zeros(L * LimbBits - Len(b)) \o b
    IN  [j \in 1..L |-> BitsInt(SubSeq(padded, (j - 1) * LimbBits + 1, j * LimbBits))]

ToBits(limbs) ==
    [k \in 1..(Len(limbs) * LimbBits) |->
        (limbs[((k - 1) \div LimbBits) + 1]
            \div (2 ^ (LimbBits - 1 - ((k - 1) % LimbBits)))) % 2]

\* Carry propagation over columns (most significant first) that may lie
\* outside 0..W-1; c is the carry into the last column.
RECURSIVE Normalize(_, _)
Normalize(cols, c) ==
    IF cols = <<>> THEN <<c>>
    ELSE LET n == Len(cols)
             t == cols[n] + c
         IN  Normalize(SubSeq(cols, 1, n - 1), t \div W) \o <<t % W>>

PadTo(b, n) == Zeros(n - Len(b)) \o b

\* a + b
AddBits(a, b) ==
    LET n  == Max(Len(a), Len(b))
        la == ToLimbs(PadTo(a, n))
        lb == ToLimbs(PadTo(b, n))
    IN  ToBits(Normalize([j \in 1..Len(la) |-> la[j] + lb[j]], 0))

\* a - b, for a >= b
SubBits(a, b) ==
    LET n  == Max(Len(a), Len(b))
        la == ToLimbs(PadTo(a, n))
        lb == ToLimbs(PadTo(b, n))
    IN  ToBits(Tail(Normalize([j \in 1..Len(la) |-> la[j] - lb[j]], 0)))

\* The sum of the limb products la[i] * lb[j] of weight W^w, from limb i on.
RECURSIVE ColSum(_, _, _, _)
ColSum(la, lb, w, i) ==
    IF i > Len(la) THEN 0
    ELSE LET j == Len(lb) - (w - (Len(la) - i))
         IN  (IF j \in 1..Len(lb) THEN la[i] * lb[j] ELSE 0) + ColSum(la, lb, w, i + 1)

\* a * b
MulBits(a, b) ==
    LET la == ToLimbs(a)
        lb == ToLimbs(b)
        nc == Len(la) + Len(lb) - 1
    IN  ToBits(Normalize([c \in 1..nc |-> ColSum(la, lb, nc - c, 1)], 0))

\* bits * 2^e rounded to PREC bits, to nearest, ties to even.
RoundFloat(bits, e) ==
    LET s == StripLeading(bits)
        n == Len(s)
    IN  IF n = 0 THEN [m |-> Zeros(PREC), e |-> 0]
        ELSE IF n <= PREC THEN [m |-> s \o Zeros(PREC - n), e |-> e - (PREC - n)]
        ELSE LET head == SubSeq(s, 1, PREC)
                 sticky == \E k \in (PREC + 2)..n : s[k] = 1
                 up == s[PREC + 1] = 1 /\ (sticky \/ head[PREC] = 1)
                 inc == IF up THEN StripLeading(AddBits(head, <<1>>)) ELSE head
             IN  IF Len(inc) > PREC
                 THEN [m |-> SubSeq(inc, 1, PREC), e |-> e + (n - PREC) + 1]
                 ELSE [m |-> inc, e |-> e + (n - PREC)]

\* k fraction limbs of r / d (r < d), then one sticky bit for the remainder.
RECURSIVE FracLimbs(_, _, _)
FracLimbs(r, d, k) ==
    IF k = 0 THEN << IF r = 0 THEN 0 ELSE 1 >>
    ELSE <<(r * W) \div d>> \o FracLimbs((r * W) % d, d, k - 1)

\* The float n / d of two small non-negative integers (Python's int / int, and
\* the value of a decimal literal with numerator n and denominator d): the
\* exact quotient, correctly rounded.
IntDiv(n, d) ==
    LET k == (PREC \div LimbBits) + 3
        q == FracLimbs(n % d, d, k)
    IN  RoundFloat(ToBits(<<n \div d>> \o SubSeq(q, 1, k)) \o <<q[k + 1]>>,
                   0 - (k * LimbBits + 1))

FIsZero(a) == \A k \in 1..PREC : a.m[k] = 0

\* a * b
FMul(a, b) == RoundFloat(MulBits(a.m, b.m), a.e + b.e)

\* a - b, for a >= b >= 0
FSub(a, b) ==
    LET e == IF FIsZero(b) THEN a.e ELSE IF a.e < b.e THEN a.e ELSE b.e
        A == a.m \o Zeros(a.e - e)
        B == IF FIsZero(b) THEN <<>> ELSE b.m \o Zeros(b.e - e)
    IN  RoundFloat(SubBits(A, B), e)

\* a <= b for bit sequences of equal length
BitsLeq(a, b) ==
    \A k \in 1..Len(a) : a[k] > b[k] => \E j \in 1..(k - 1) : a[j] < b[j]

\* a <= b for non-negative floats
FLeq(a, b) ==
    IF FIsZero(a) THEN TRUE
    ELSE IF FIsZero(b) THEN FALSE
    ELSE IF a.e # b.e THEN a.e < b.e
    ELSE BitsLeq(a.m, b.m)

\* The sign of (n ticks - f seconds), for a float f with f.e <= -TickShift:
\* n * 2^s against the significand of f, where s = -f.e - TickShift.
TicksCmp(n, f) ==
    LET s  == 0 - f.e - TickShift
        hi == IF s >= PREC THEN 0 ELSE BitsInt(SubSeq(f.m, 1, PREC - s))
        lo == \E k \in 1..PREC : k > PREC - s /\ f.m[k] = 1
    IN  IF n > hi THEN 1
        ELSE IF n = hi /\ ~lo THEN 0
        ELSE 0 - 1

\* n ticks >= f seconds
TicksGeq(n, f) == TicksCmp(n, f) >= 0

(***************************************************************************)
(* Configuration.                                                          *)
(***************************************************************************)
BASE_INTERVAL == IntDiv(10, 10)
MIN_INTERVAL == IntDiv(2, 10)

\* update_interval of the die of index i (0-based), line 87.
Interpolate(i) ==
    FSub(BASE_INTERVAL,
         FMul(IntDiv(i, NUM_DICE - 1), FSub(BASE_INTERVAL, MIN_INTERVAL)))

(***************************************************************************)
(* State.                                                                  *)
(*   dice               dice_list: one record per Dice object, holding the *)
(*                      fields the update logic reads and writes (x, y and *)
(*                      size only feed draw())                             *)
(*   current_time       the last value read from time.time(), in ticks     *)
(*   pc, idx            position in the main loop and in `for dice in      *)
(*                      dice_list` (idx is the index of `dice`, 1-based)   *)
(***************************************************************************)
VARIABLES dice, global_roll_count, count_low, count_high,
          simulation_active, running, current_time, pc, idx

vars == <<dice, global_roll_count, count_low, count_high,
          simulation_active, running, current_time, pc, idx>>

tally == <<global_roll_count, count_low, count_high>>

\* randint with the upper end taken as in range(a, b + 2).
randintPastEnd(a, b) == a..(b + 1)

\* random.randint(a, b): any integer of a..b, both ends included.
randint(a, b) == a..b

\* The faces the model draws out of a set S of possible faces: the least and
\* the greatest, and the two faces on either side of the low/high threshold.
Sample(S) ==
    {v \in S : \/ \A u \in S : v <= u
               \/ \A u \in S : v >= u
               \/ v \in {13, 14}}

\* Dice.__init__ at clock reading t, with v the face drawn.
DiceInit(update_interval, t, v) ==
    [update_interval |-> update_interval, last_update_time |-> t, value |-> v]

\* update with > for >= on line 56.
DiceUpdateStrict(d, t, v) ==
    IF TicksCmp(t - d.last_update_time, d.update_interval) > 0
    THEN [die |-> [d EXCEPT !.value = v, !.last_update_time = t], ret |-> TRUE]
    ELSE [die |-> d, ret |-> FALSE]

\* update with the operands of the subtraction on line 56 swapped.
DiceUpdateSwapped(d, t, v) ==
    IF TicksGeq(d.last_update_time - t, d.update_interval)
    THEN [die |-> [d EXCEPT !.value = v, !.last_update_time = t], ret |-> TRUE]
    ELSE [die |-> d, ret |-> FALSE]

\* Dice.update(current_time) on the die d, with v the face random.randint
\* yields if it is called: the die afterwards and the value returned.
DiceUpdate(d, t, v) ==
    IF TicksGeq(t - d.last_update_time, d.update_interval)
    THEN [die |-> [d EXCEPT !.value = v, !.last_update_time = t], ret |-> TRUE]
    ELSE [die |-> d, ret |-> FALSE]

\* The tally with two independent tests that overlap at 13.
TallyOverlap(low, high, v) ==
    [low  |-> IF 1 <= v /\ v <= 13 THEN low + 1 ELSE low,
     high |-> IF 13 <= v THEN high + 1 ELSE high]

\* The tally with < 13 for <= 13 on line 118.
TallyBelow13(low, high, v) ==
    IF 1 <= v /\ v < 13
    THEN [low |-> low + 1, high |-> high]
    ELSE [low |-> low, high |-> high + 1]

\* Lines 118-121: the bucket counters after a re-roll to the face v.
Tally(low, high, v) ==
    IF 1 <= v /\ v <= 13
    THEN [low |-> low + 1, high |-> high]
    ELSE [low |-> low, high |-> high + 1]

\* Lines 81-88: the update interval of every die, by 0-based index.
Intervals == [i \in 0..(NUM_DICE - 1) |-> Interpolate(i)]

\* Startup (lines 80-101).  Every die is built within tick 0 of the clock,
\* each with a face of its own.
Init ==
    /\ \E faces \in [1..NUM_DICE -> Sample(randint(1, 20))] :
           dice = [i \in 1..NUM_DICE |-> DiceInit(Intervals[i - 1], 0, faces[i])]
    /\ global_roll_count = 0
    /\ count_low = 0
    /\ count_high = 0
    /\ simulation_active = TRUE
    /\ running = TRUE
    /\ current_time = 0
    /\ pc = "while"
    /\ idx = 0

\* Lines 104-112: the loop test, the clock reading (dt ticks after the last
\* one), the event poll (quit: a QUIT event is pending) and the test of
\* simulation_active.
BeginFrame(dt, quit) ==
    /\ pc = "while"
    /\ running
    /\ current_time + dt <= MaxTime
    /\ current_time' = current_time + dt
    /\ running' = ~quit
    /\ IF simulation_active
       THEN pc' = "for" /\ idx' = 1
       ELSE pc' = "draw" /\ idx' = idx
    /\ UNCHANGED <<dice, tally, simulation_active>>

\* The loop body without the test of line 115 and without the break of line
\* 125: every die whose interval has elapsed is re-rolled and tallied.
ForBodyNoStop(v) ==
    /\ pc = "for"
    /\ LET r == DiceUpdate(dice[idx], current_time, v)
           t == Tally(count_low, count_high, r.die.value)
           stop == r.ret /\ global_roll_count + 1 >= MAX_ROLLS
       IN  /\ dice' = [dice EXCEPT ![idx] = r.die]
           /\ global_roll_count' = IF r.ret THEN global_roll_count + 1
                                            ELSE global_roll_count
           /\ count_low' = IF r.ret THEN t.low ELSE count_low
           /\ count_high' = IF r.ret THEN t.high ELSE count_high
           /\ simulation_active' = IF stop THEN FALSE ELSE simulation_active
           /\ IF idx = NUM_DICE
              THEN pc' = "draw" /\ idx' = idx
              ELSE pc' = "for" /\ idx' = idx + 1
    /\ UNCHANGED <<running, current_time>>

\* The loop body with > for >= on line 123.
ForBodyLateStop(v) ==
    /\ pc = "for"
    /\ LET r == IF global_roll_count < MAX_ROLLS
                THEN DiceUpdate(dice[idx], current_time, v)
                ELSE [die |-> dice[idx], ret |-> FALSE]
           t == Tally(count_low, count_high, r.die.value)
           stop == r.ret /\ global_roll_count + 1 > MAX_ROLLS
       IN  /\ dice' = [dice EXCEPT ![idx] = r.die]
           /\ global_roll_count' = IF r.ret THEN global_roll_count + 1
                                            ELSE global_roll_count
           /\ count_low' = IF r.ret THEN t.low ELSE count_low
           /\ count_high' = IF r.ret THEN t.high ELSE count_high
           /\ simulation_active' = IF stop THEN FALSE ELSE simulation_active
           /\ IF stop \/ idx = NUM_DICE
              THEN pc' = "draw" /\ idx' = idx
              ELSE pc' = "for" /\ idx' = idx + 1
    /\ UNCHANGED <<running, current_time>>

\* Lines 114-125: one iteration of `for dice in dice_list`, on the die idx,
\* with v the face random.randint yields if update draws one.
ForBody(v) ==
    /\ pc = "for"
    /\ LET r == IF global_roll_count < MAX_ROLLS
                THEN DiceUpdate(dice[idx], current_time, v)
                ELSE [die |-> dice[idx], ret |-> FALSE]
           t == Tally(count_low, count_high, r.die.value)
           stop == r.ret /\ global_roll_count + 1 >= MAX_ROLLS
       IN  /\ dice' = [dice EXCEPT ![idx] = r.die]
           /\ global_roll_count' = IF r.ret THEN global_roll_count + 1
                                            ELSE global_roll_count
           /\ count_low' = IF r.ret THEN t.low ELSE count_low
           /\ count_high' = IF r.ret THEN t.high ELSE count_high
           /\ simulation_active' = IF stop THEN FALSE ELSE simulation_active
           /\ IF stop \/ idx = NUM_DICE
              THEN pc' = "draw" /\ idx' = idx
              ELSE pc' = "for" /\ idx' = idx + 1
    /\ UNCHANGED <<running, current_time>>

\* Lines 128-163: the frame is drawn from the tally, the dice and the flag;
\* no program state changes.
Draw ==
    /\ pc = "draw"
    /\ pc' = "while"
    /\ UNCHANGED <<dice, tally, simulation_active, running, current_time, idx>>

\* Lines 104, 166-167: the loop ends once running is False.
Exit ==
    /\ pc = "while"
    /\ ~running
    /\ pc' = "done"
    /\ UNCHANGED <<dice, tally, simulation_active, running, current_time, idx>>

Next ==
    \/ \E dt \in 0..MaxDt : BeginFrame(dt, FALSE)
    \/ \E dt \in 0..MaxDt : BeginFrame(dt, TRUE)
    \/ \E v \in Sample(randint(1, 20)) : ForBody(v)
    \/ Draw
    \/ Exit

Spec == Init /\ [][Next]_vars

(***************************************************************************)
(* The run in which no QUIT event arrives.  The loop never blocks, so      *)
(* every enabled step is eventually taken; clock.tick(FPS) on line 163     *)
(* makes every frame last at least 1/FPS seconds, so the clock read on     *)
(* line 105 keeps advancing: frames that see a later tick recur.           *)
(***************************************************************************)
Advance == \E dt \in 1..MaxDt : BeginFrame(dt, FALSE)

NextLive ==
    \/ \E dt \in 0..MaxDt : BeginFrame(dt, FALSE)
    \/ \E v \in Sample(randint(1, 20)) : ForBody(v)
    \/ Draw

LiveSpec == Init /\ [][NextLive]_vars /\ WF_vars(NextLive) /\ SF_vars(Advance)

(***************************************************************************)
(* Properties.                                                             *)
(***************************************************************************)
\* Has the interval of the die k elapsed at the clock reading current_time?
Eligible(k) ==
    TicksGeq(current_time - dice[k].last_update_time, dice[k].update_interval)

\* C1: at startup, between frames and after every tallied re-roll inside a
\* frame, count_low + count_high equals global_roll_count.
C1_TallySum == count_low + count_high = global_roll_count

\* C1 witness: inside the die loop, after re-rolls have been tallied into both
\* buckets.
C1_Witness ==
    /\ pc = "for"
    /\ idx > 1
    /\ count_low >= 1
    /\ count_high >= 1
    /\ dice[idx - 1].last_update_time = current_time

\* C2: global_roll_count never exceeds MAX_ROLLS, whatever the clock readings
\* and the faces drawn, also when more dice are eligible in a frame than rolls
\* remain.
C2_CapNeverExceeded == global_roll_count <= MAX_ROLLS

\* C2 witness: the cap was reached at a die that is not the last one, in a
\* frame in which a later die was eligible as well.
C2_Witness ==
    /\ pc = "draw"
    /\ global_roll_count = MAX_ROLLS
    /\ dice[idx].last_update_time = current_time
    /\ \E k \in (idx + 1)..NUM_DICE : Eligible(k)

\* C3: once simulation_active is False, no step changes global_roll_count,
\* count_low or count_high.
C3_FinishedKeepsTally == [][~simulation_active => UNCHANGED tally]_vars

\* C3 witness: a frame that began after the simulation finished, at a later
\* clock reading than any re-roll, with every die eligible.
C3_Witness ==
    /\ ~simulation_active
    /\ pc = "draw"
    /\ \A k \in 1..NUM_DICE : dice[k].last_update_time < current_time /\ Eligible(k)

\* C4: the phase is Finished exactly when global_roll_count equals the cap (so
\* it starts Active and turns Finished in the very step that reaches the cap),
\* and once Finished it stays Finished.
C4_PhaseFollowsCap ==
    /\ [](~simulation_active <=> global_roll_count = MAX_ROLLS)
    /\ [][~simulation_active => ~simulation_active']_vars

\* C4 witness: the loop test is reached again after the simulation finished.
C4_Witness ==
    /\ ~simulation_active
    /\ global_roll_count = MAX_ROLLS
    /\ pc = "while"
    /\ running

\* C5: in a loop iteration on the die idx, the die is re-rolled (timestamp set
\* to current_time, a roll counted) when current_time - last_update_time >=
\* update_interval, equality included, and is left as it was, with no roll
\* counted, when the difference is smaller.
C5_UpdateContract ==
    [][pc = "for" =>
          IF TicksGeq(current_time - dice[idx].last_update_time,
                      dice[idx].update_interval)
          THEN /\ dice'[idx].last_update_time = current_time
               /\ global_roll_count' = global_roll_count + 1
          ELSE /\ dice'[idx] = dice[idx]
               /\ UNCHANGED tally]_vars

\* C5 witness: the first die, whose interval is exactly 2^TickShift ticks,
\* was re-rolled at the tick at which the difference equalled the interval,
\* while the clock has since advanced by less than the interval.
C5_Witness ==
    /\ dice[1].last_update_time = 2 ^ TickShift
    /\ current_time > dice[1].last_update_time
    /\ ~Eligible(1)
    /\ pc = "for"
    /\ idx = 2

\* C6: the value of every die is an integer of 1..20, at construction and
\* after any number of updates.
C6_ValueInRange == \A k \in 1..NUM_DICE : dice[k].value \in 1..20

\* C6 witness: dice re-rolled to the least and to the greatest face.
C6_Witness ==
    \E j, k \in 1..NUM_DICE :
        /\ dice[j].last_update_time > 0 /\ dice[j].value = 1
        /\ dice[k].last_update_time > 0 /\ dice[k].value = 20

\* C7: the intervals are non-increasing in the die index, the first is
\* BASE_INTERVAL, the last is MIN_INTERVAL, and each is the interpolation of
\* line 87.
C7_IntervalsAsClaimed ==
    /\ \A i \in 1..(NUM_DICE - 1) :
           FLeq(dice[i + 1].update_interval, dice[i].update_interval)
    /\ \A i \in 1..NUM_DICE : dice[i].update_interval = Intervals[i - 1]
    /\ dice[1].update_interval = BASE_INTERVAL
    /\ dice[NUM_DICE].update_interval = MIN_INTERVAL

\* The part of C7 the program does satisfy: non-increasing intervals, the first
\* BASE_INTERVAL, the last at most MIN_INTERVAL.
IntervalsMonotone ==
    /\ \A i \in 1..(NUM_DICE - 1) :
           FLeq(dice[i + 1].update_interval, dice[i].update_interval)
    /\ dice[1].update_interval = BASE_INTERVAL
    /\ FLeq(dice[NUM_DICE].update_interval, MIN_INTERVAL)

\* C8: when no QUIT event arrives and the clock keeps advancing, the
\* simulation eventually is Finished with global_roll_count at the cap and both
\* buckets adding up to it.
C8_EventuallyFinished ==
    <>(/\ ~simulation_active
       /\ global_roll_count = MAX_ROLLS
       /\ count_low + count_high = MAX_ROLLS)

\* C8 witness: the simulation has finished, the slowest die among those
\* re-rolled.
C8_Witness ==
    /\ ~simulation_active
    /\ global_roll_count = MAX_ROLLS
    /\ count_low + count_high = MAX_ROLLS
    /\ dice[1].last_update_time > 0
    /\ dice[NUM_DICE].last_update_time > 0

\* C9: in the step that brings global_roll_count to the cap only the die being
\* updated changes, and once the count is at the cap no die changes its value
\* or its last_update_time again, eligible or not.
C9_FrozenAtCap ==
    [][global_roll_count' >= MAX_ROLLS =>
          \A k \in 1..NUM_DICE :
              dice'[k] # dice[k] => (k = idx /\ global_roll_count < MAX_ROLLS)]_vars

\* C9 witness: after the cap was reached at a die that is not the last one, a
\* later frame finds a die after it eligible and still as it was.
C9_Witness ==
    /\ global_roll_count = MAX_ROLLS
    /\ pc = "while"
    /\ idx < NUM_DICE
    /\ dice[idx].last_update_time < current_time
    /\ \E k \in (idx + 1)..NUM_DICE :
           Eligible(k) /\ dice[k].last_update_time < dice[idx].last_update_time

\* C10: the counters start at 0 (faces drawn at construction are not
\* tallied); a step that re-rolls a die adds 1 to global_roll_count and 1 to
\* exactly one bucket, count_low for a new face <= 13 and count_high for a new
\* face >= 14; a step that re-rolls no die changes no counter.
C10_TallyPerRoll ==
    /\ global_roll_count = 0 /\ count_low = 0 /\ count_high = 0
    /\ [][IF \E k \in 1..NUM_DICE :
                 dice'[k].last_update_time # dice[k].last_update_time
          THEN /\ pc = "for"
               /\ simulation_active
               /\ global_roll_count' = global_roll_count + 1
               /\ IF dice'[idx].value <= 13
                  THEN count_low' = count_low + 1 /\ count_high' = count_high
                  ELSE /\ dice'[idx].value >= 14
                       /\ count_high' = count_high + 1 /\ count_low' = count_low
          ELSE UNCHANGED tally]_vars

\* C10 witness: re-rolls to the faces 13 and 14, tallied in different buckets,
\* then an iteration that did not re-roll.
C10_Witness ==
    /\ count_low >= 1
    /\ count_high >= 1
    /\ simulation_active
    /\ \E j, k \in 1..NUM_DICE :
           /\ dice[j].last_update_time > 0 /\ dice[j].value = 13
           /\ dice[k].last_update_time > 0 /\ dice[k].value = 14
    /\ pc = "for"
    /\ idx > 1
    /\ dice[idx - 1].last_update_time < current_time

====
